---------------------------- MODULE Spec2Model ----------------------------
(***************************************************************************)
(* Snapshot-restore orchestration of elk-util (src/elk_util/elk-cursor.py).*)
(*                                                                         *)
(* Index names are sequences of one-character strings so that              *)
(* str.startswith is computed, not assumed.  A dict is modelled in its     *)
(* insertion order: the snapshot-size map is a sequence of                 *)
(* [name, size] entries with pairwise distinct names; the local-index map  *)
(* is a function from names to [docs, size].                               *)
(*                                                                         *)
(* Sizes are counted in units of 10^9 bytes, so that MAX_RESTORE_BYTES     *)
(* (500 * 10**9) is 500: Python integers are unbounded, and the code only  *)
(* adds and compares sizes, which is invariant under the change of unit.   *)
(*                                                                         *)
(* Specifications: Spec and FairSpec (one run of main), SpecTwice (a run   *)
(* followed by the start of a second one), SpecPick (the selection of the  *)
(* batch), SpecParse (the conversion of store.size) and SpecLatest (the    *)
(* choice of the snapshot).                                                *)
(***************************************************************************)
EXTENDS Integers, Sequences, FiniteSets, TLC

VARIABLES
    pc,             \* position of main() (or of the function it is inside)
    snapshot,       \* main: snapshot (id of the latest snapshot, or None)
    snap_indices,   \* main: snap_indices
    local_indices,  \* main: local_indices, [none, dict] (None or a dict)
    batch,          \* main: batch
    picked,         \* history: pick_indices_to_restore has been called
    i,              \* main: position of the for loop in batch (1-based)
    expected_docs,  \* main: expected_docs of the index being processed
    attempt,        \* restore_index / wait_for_green: attempt
    health_polls,   \* history: health GETs issued by the current restore_index
    green_polls,    \* history: health GETs issued by the current wait_for_green
    pollLog,        \* history: outcomes of the latest polls of restore_index
    restore_result, \* history: what restore_index returned for this index
    calls,          \* history: the HTTP calls issued by this run, in order
    contents,       \* what the two clusters hold: the snapshot listing and the
                    \* snapshot's index sizes (active), the index table (passive)
    run,            \* 1 for a run of main(), 2 for a run started after it
    prev,           \* history: the batch and the restored indices of run 1
    size,           \* get_local_indices: size (the store.size string of a row)
    size_bytes      \* get_local_indices: size_bytes

vars == <<pc, snapshot, snap_indices, local_indices, batch, picked, i,
          expected_docs, attempt, health_polls, green_polls, pollLog,
          restore_result, calls, contents, run, prev, size, size_bytes>>

None == "None"

\* an optional doc count: NoCount for None, {c} for the integer c
NoCount == {}

(***************************************************************************)
(* Configuration constants                                                 *)
(***************************************************************************)
MAX_RESTORE_BYTES == 500

SYSTEM_INDICES ==
    << <<".", "k", "i", "b", "a", "n", "a">>,
       <<".", "k", "i", "b", "a", "n", "a", "_">>,
       <<".", "s", "e", "c", "u", "r", "i", "t", "y">>,
       <<".", "a", "p", "m">>,
       <<".", "a", "s", "y", "n", "c", "-", "s", "e", "a", "r", "c", "h">>,
       <<".", "d", "s", "-">>,
       <<".", "i", "n", "t", "e", "r", "n", "a", "l", ".">>,
       <<".", "s", "l", "o", "-">> >>

(***************************************************************************)
(* Index names of the model                                                *)
(***************************************************************************)
logs       == <<"l", "o", "g", "s">>
metrics    == <<"m", "e", "t", "r", "i", "c", "s">>
kibana     == <<"k", "i", "b", "a", "n", "a">>            \* no leading dot
dot_kibana_1 == <<".", "k", "i", "b", "a", "n", "a", "_", "1">>

UserNames   == {logs, metrics, kibana}

(***************************************************************************)
(* is_system_index                                                         *)
(***************************************************************************)
StartsWith(s, prefix) ==
    /\ Len(prefix) <= Len(s)
    /\ SubSeq(s, 1, Len(prefix)) = prefix

is_system_index_exact(index_name) ==
    \E k \in 1..Len(SYSTEM_INDICES) : index_name = SYSTEM_INDICES[k]

is_system_index(index_name) ==
    \E k \in 1..Len(SYSTEM_INDICES) : StartsWith(index_name, SYSTEM_INDICES[k])

(***************************************************************************)
(* pick_indices_to_restore                                                 *)
(***************************************************************************)
\* line 156: local = local_indices.get(idx)
HasLocal(local, idx) == idx \in DOMAIN local

\* line 157: not local or snap_size > local['size']   (a present entry is a
\* non-empty dict, hence truthy: "not local" is exactly "absent")
NeedsRestore_ge(e, local) ==
    \/ ~HasLocal(local, e.name)
    \/ e.size >= local[e.name].size

NeedsRestore(e, local) ==
    \/ ~HasLocal(local, e.name)
    \/ e.size > local[e.name].size

\* lines 149-159: the to_restore list, in the snapshot map's iteration order
Candidates(snapshot_indices, local) ==
    SelectSeq(snapshot_indices,
              LAMBDA e : ~is_system_index(e.name) /\ NeedsRestore(e, local))

\* list.sort(key=lambda x: -x[1]) is a stable sort: insertion after every
\* element whose size is at least the inserted one's.
RECURSIVE InsertDesc(_, _)
InsertDesc(e, sorted) ==
    IF sorted = <<>> THEN <<e>>
    ELSE IF Head(sorted).size >= e.size
         THEN <<Head(sorted)>> \o InsertDesc(e, Tail(sorted))
         ELSE <<e>> \o sorted

\* the list left in the snapshot map's iteration order
SortBySizeDesc_unsorted(s) == s

RECURSIVE SortBySizeDesc(_)
SortBySizeDesc(s) ==
    IF s = <<>> THEN <<>>
    ELSE InsertDesc(s[Len(s)], SortBySizeDesc(SubSeq(s, 1, Len(s) - 1)))

\* lines 163-170 with "continue" in place of "break"
RECURSIVE GreedyPack_skip(_, _)
GreedyPack_skip(sorted, total) ==
    IF sorted = <<>> THEN <<>>
    ELSE IF total + Head(sorted).size > MAX_RESTORE_BYTES
         THEN GreedyPack_skip(Tail(sorted), total)
         ELSE <<Head(sorted).name>>
              \o GreedyPack_skip(Tail(sorted), total + Head(sorted).size)

\* lines 163-170 with the test made on the total before the addition
RECURSIVE GreedyPack_late(_, _)
GreedyPack_late(sorted, total) ==
    IF sorted = <<>> THEN <<>>
    ELSE IF total > MAX_RESTORE_BYTES
         THEN <<>>
         ELSE <<Head(sorted).name>>
              \o GreedyPack_late(Tail(sorted), total + Head(sorted).size)

\* lines 163-170: batch, total = [], 0; for ...: if total + size > MAX: break
RECURSIVE GreedyPack(_, _)
GreedyPack(sorted, total) ==
    IF sorted = <<>> THEN <<>>
    ELSE IF total + Head(sorted).size > MAX_RESTORE_BYTES
         THEN <<>>
         ELSE <<Head(sorted).name>>
              \o GreedyPack(Tail(sorted), total + Head(sorted).size)

pick_indices_to_restore(snapshot_indices, local) ==
    GreedyPack(SortBySizeDesc(Candidates(snapshot_indices, local)), 0)


(***************************************************************************)
(* Cluster responses of the model                                          *)
(***************************************************************************)
max_attempts == 30          \* restore_index, line 242

wait_max_attempts == 30     \* wait_for_green, line 293

PollWindow == 4             \* pollLog keeps the latest PollWindow outcomes

Statuses  == {"green", "yellow"}
DocCounts == {0, 7}

EmptyDict == [n \in {} |-> 0]

Entry(n, sz) == [name |-> n, size |-> sz]
Stat(d, sz)  == [docs |-> d, size |-> sz]

\* GET /_cat/snapshots: rows of id and end_epoch (strings of digits)
LatestListing ==
    << [id |-> "snap-1", end_epoch |-> <<"1", "0", "0">>],
       [id |-> "snap-2", end_epoch |-> <<"2", "0", "0">>] >>

SnapshotListings == { <<>>, LatestListing }

\* GET /_snapshot/{repo}/{snapshot}/_status: index -> size_in_bytes
SnapshotResponses ==
    { <<>>,
      << Entry(logs, 200) >>,
      << Entry(metrics, 200), Entry(dot_kibana_1, 220), Entry(logs, 250),
         Entry(kibana, 100) >> }

\* GET /_cat/indices, after the size and docs.count conversions
LocalResponses ==
    { (logs :> Stat(7, 200)) @@ (dot_kibana_1 :> Stat(0, 10)) }

\* the contents of the two clusters when a run starts
Clusters ==
    [listing : SnapshotListings, snap : SnapshotResponses,
     local : LocalResponses]

\* no run has been made before this one
NoRun == [batch |-> <<>>, restored |-> {}, ended |-> None]

\* a byte count coef * 1024^pow, kept as the pair: 1024^4 is beyond the
\* integers of the model checker.  Zero has the one form Bytes(0, 0).
Bytes(coef, pow) ==
    IF coef = 0 THEN [coef |-> 0, pow |-> 0] ELSE [coef |-> coef, pow |-> pow]

(***************************************************************************)
(* The log of HTTP calls.  Consecutive polls of one phase of one index are *)
(* kept as one entry, which carries the latest poll's outcome.             *)
(***************************************************************************)
Call(op, method, cluster, index, ok) ==
    [op |-> op, method |-> method, cluster |-> cluster, index |-> index,
     ok |-> ok]

\* a call whose URL names a snapshot
SnapshotCall(op, method, cluster, snap, index, ok) ==
    [op |-> op, method |-> method, cluster |-> cluster, index |-> index,
     ok |-> ok, snapshot |-> snap]

Logged(log, c) ==
    IF /\ log # <<>>
       /\ c.op \in {"health", "wait_green"}
       /\ log[Len(log)].op = c.op
       /\ log[Len(log)].index = c.index
    THEN [log EXCEPT ![Len(log)] = c]
    ELSE Append(log, c)

Pushed(log, outcome) ==
    IF Len(log) < PollWindow THEN Append(log, outcome)
    ELSE Append(Tail(log), outcome)

(***************************************************************************)
(* Python's comparison of two strings of digits (lexicographic)            *)
(***************************************************************************)
Digit(c) == CASE c = "0" -> 0 [] c = "1" -> 1 [] c = "2" -> 2 [] c = "3" -> 3
              [] c = "4" -> 4 [] c = "5" -> 5 [] c = "6" -> 6 [] c = "7" -> 7
              [] c = "8" -> 8 [] c = "9" -> 9

RECURSIVE StrLess(_, _)
StrLess(a, b) ==
    IF b = <<>> THEN FALSE
    ELSE IF a = <<>> THEN TRUE
    ELSE IF Digit(Head(a)) # Digit(Head(b)) THEN Digit(Head(a)) < Digit(Head(b))
    ELSE StrLess(Tail(a), Tail(b))

\* max(snapshots, key=...): the first row that no later row exceeds
RECURSIVE MaxByEpoch(_)
MaxByEpoch(rows) ==
    IF Len(rows) = 1 THEN rows[1]
    ELSE LET m == MaxByEpoch(SubSeq(rows, 1, Len(rows) - 1))
         IN  IF StrLess(m.end_epoch, rows[Len(rows)].end_epoch)
             THEN rows[Len(rows)] ELSE m

(***************************************************************************)
(* Return values of the helpers, as functions of the HTTP outcome          *)
(***************************************************************************)
\* verify_repository, lines 45-62
verify_repository_always(outcome) == TRUE

verify_repository(outcome) == outcome = "ok"

\* get_latest_snapshot, lines 64-78
get_latest_snapshot(resp) ==
    IF ~resp.ok THEN None
    ELSE IF resp.body = <<>> THEN None
    ELSE MaxByEpoch(resp.body).id

\* get_snapshot_indices, lines 91-100
get_snapshot_indices(resp) == IF resp.ok THEN resp.body ELSE <<>>

\* get_local_indices, lines 102-145: {} when the request fails
get_local_indices(resp) ==
    IF resp.ok THEN [none |-> FALSE, dict |-> resp.body]
    ELSE [none |-> FALSE, dict |-> EmptyDict]

\* get_index_doc_count, lines 183-191
get_index_doc_count_zero(resp) == IF resp.ok THEN resp.count ELSE {0}

get_index_doc_count(resp) == IF resp.ok THEN resp.count ELSE NoCount

\* verify_restore_success, lines 193-208
verify_restore_success_any(actual_docs, expected) ==
    actual_docs # NoCount

verify_restore_success(actual_docs, expected) ==
    IF actual_docs = NoCount THEN FALSE
    ELSE actual_docs = expected

CountResponses ==
    {[ok |-> FALSE, count |-> NoCount]}
        \cup {[ok |-> TRUE, count |-> {c}] : c \in DocCounts}

(***************************************************************************)
(* main, lines 316-369                                                     *)
(***************************************************************************)
Init ==
    /\ pc = "verify_repository"
    /\ snapshot = None
    /\ snap_indices = <<>>
    /\ local_indices = [none |-> TRUE, dict |-> EmptyDict]
    /\ batch = <<>>
    /\ picked = FALSE
    /\ i = 0
    /\ expected_docs = NoCount
    /\ attempt = 0
    /\ health_polls = 0
    /\ green_polls = 0
    /\ pollLog = <<>>
    /\ restore_result = None
    /\ calls = <<>>
    /\ contents \in Clusters
    /\ run = 1
    /\ prev = NoRun
    /\ size = <<>>
    /\ size_bytes = Bytes(0, 0)

idx == batch[i]

loopVars == <<expected_docs, attempt, health_polls, green_polls, pollLog,
              restore_result>>
auxVars  == <<contents, run, prev, size, size_bytes>>
runVars  == <<snapshot, snap_indices, local_indices, batch, picked, auxVars>>

\* a "return" of main before the loop
Exit == pc' = "exited"

\* the for statement, line 349: the next index, or line 369 after the last
ForNext(k) ==
    IF k <= Len(batch)
    THEN /\ pc' = "get_doc_count"
         /\ i' = k
    ELSE /\ pc' = "completed"
         /\ i' = k

\* the same index taken again after it has been processed
NextIndex_retry ==
    /\ pc' = "get_doc_count"
    /\ i' = i
    /\ attempt' = 0

\* "continue", or the end of the loop body: the locals of the helpers die
NextIndex ==
    /\ ForNext(i + 1)
    /\ attempt' = 0

\* the "continue" statements of lines 356 and 360
Continue_return ==
    /\ pc' = "exited"
    /\ i' = i
    /\ attempt' = 0

Continue == NextIndex

\* lines 320-322
VerifyRepository ==
    /\ pc = "verify_repository"
    /\ \E outcome \in {"ok", "fail_exists", "fail_status"} :
          /\ calls' =
                IF outcome = "fail_exists"
                THEN Append(calls, Call("repo_exists", "GET", "passive", None, FALSE))
                ELSE calls
                     \o << Call("repo_exists", "GET", "passive", None, TRUE),
                           Call("repo_status", "GET", "passive", None,
                                outcome = "ok") >>
          /\ IF verify_repository(outcome)
             THEN pc' = "get_latest_snapshot"
             ELSE Exit
    /\ UNCHANGED <<runVars, i, loopVars>>

\* lines 325-328
GetLatestSnapshot ==
    /\ pc = "get_latest_snapshot"
    /\ \E resp \in {[ok |-> FALSE, body |-> <<>>],
                    [ok |-> TRUE, body |-> contents.listing]} :
          /\ calls' = Append(calls,
                 Call("list_snapshots", "GET", "active", None, resp.ok))
          /\ snapshot' = get_latest_snapshot(resp)
          /\ IF snapshot' = None        \* "not snapshot"
             THEN Exit
             ELSE pc' = "get_snapshot_indices"
    /\ UNCHANGED <<snap_indices, local_indices, batch, picked, i, loopVars,
                   auxVars>>

\* lines 331-334
GetSnapshotIndices ==
    /\ pc = "get_snapshot_indices"
    /\ \E resp \in {[ok |-> FALSE, body |-> <<>>],
                    [ok |-> TRUE, body |-> contents.snap]} :
          /\ calls' = Append(calls,
                 Call("snapshot_status", "GET", "active", None, resp.ok))
          /\ snap_indices' = get_snapshot_indices(resp)
          /\ IF snap_indices' = <<>>    \* "not snap_indices"
             THEN Exit
             ELSE pc' = "get_local_indices"
    /\ UNCHANGED <<snapshot, local_indices, batch, picked, i, loopVars,
                   auxVars>>

\* lines 337-340
GetLocalIndices ==
    /\ pc = "get_local_indices"
    /\ \E resp \in {[ok |-> FALSE, body |-> EmptyDict],
                    [ok |-> TRUE, body |-> contents.local]} :
          /\ calls' = Append(calls,
                 Call("cat_indices", "GET", "passive", None, resp.ok))
          /\ local_indices' = get_local_indices(resp)
          /\ IF local_indices'.none     \* "local_indices is None"
             THEN Exit
             ELSE pc' = "pick"
    /\ UNCHANGED <<snapshot, snap_indices, batch, picked, i, loopVars,
                   auxVars>>

\* lines 343-346, and the entry of the loop
PickBatch ==
    /\ pc = "pick"
    /\ batch' = pick_indices_to_restore(snap_indices, local_indices.dict)
    /\ picked' = TRUE
    /\ IF batch' = <<>>
       THEN Exit /\ i' = i
       ELSE /\ pc' = "get_doc_count"
            /\ i' = 1
    /\ UNCHANGED <<snapshot, snap_indices, local_indices, loopVars, calls,
                   auxVars>>

\* line 358: if idx in local_indices
NeedsClose_always(local, n) == TRUE

NeedsClose(local, n) == HasLocal(local, n)

\* lines 353-360 up to the close call
GetExpectedDocs ==
    /\ pc = "get_doc_count"
    /\ \E resp \in CountResponses :
          /\ calls' = Append(calls, Call("count", "GET", "active", idx, resp.ok))
          /\ expected_docs' = get_index_doc_count(resp)
          /\ IF expected_docs' = NoCount
             THEN Continue
             ELSE /\ pc' = IF NeedsClose(local_indices.dict, idx)
                           THEN "close_index" ELSE "restore_verify"
                  /\ UNCHANGED <<i, attempt>>
    /\ health_polls' = 0
    /\ green_polls' = 0
    /\ pollLog' = <<>>
    /\ restore_result' = None
    /\ UNCHANGED runVars


(***************************************************************************)
(* restore_index, lines 210-280, and what main does with its result        *)
(***************************************************************************)
PyBool(b) == IF b THEN "True" ELSE "False"

\* lines 362-367 with the index opened whatever restore_index returned
ReturnFromRestore_reopen(result) ==
    /\ restore_result' = PyBool(result)
    /\ pc' = "open_index"
    /\ attempt' = 0
    /\ i' = i

\* lines 362-367: open the index after a successful restore, else log
ReturnFromRestore(result) ==
    /\ restore_result' = PyBool(result)
    /\ IF result
       THEN /\ pc' = "open_index"
            /\ attempt' = 0
            /\ i' = i
       ELSE NextIndex

\* line 175: the cluster that close_index posts to
close_index_cluster_active == "active"

close_index_cluster == "passive"

\* lines 359-360
CloseIndex ==
    /\ pc = "close_index"
    /\ \E ok \in BOOLEAN :
          /\ calls' = Append(calls, Call("close", "POST", close_index_cluster, idx, ok))
          /\ IF ok
             THEN pc' = "restore_verify" /\ UNCHANGED <<i, attempt>>
             ELSE Continue
    /\ UNCHANGED <<runVars, expected_docs, health_polls, green_polls, pollLog,
                   restore_result>>

\* lines 215-218: the snapshot is visible when the GET returns and is ok
SnapshotVerified_unchecked(outcome) == TRUE

SnapshotVerified(outcome) == outcome = "ok"

\* lines 214-218 (and 278-280 when the request raises)
RestoreVerify ==
    /\ pc = "restore_verify"
    /\ \E outcome \in {"ok", "not_ok", "raised"} :
          /\ calls' = Append(calls,
                 SnapshotCall("verify_snapshot", "GET", "passive", snapshot, idx,
                              outcome = "ok"))
          /\ IF SnapshotVerified(outcome)
             THEN /\ pc' = "restore_request"
                  /\ UNCHANGED <<i, attempt, restore_result>>
             ELSE ReturnFromRestore(FALSE)
    /\ UNCHANGED <<runVars, expected_docs, health_polls, green_polls, pollLog>>

\* lines 220-243 (and 278-280 when the request raises)
RestoreRequest ==
    /\ pc = "restore_request"
    /\ \E outcome \in {"ok", "not_ok", "raised"} :
          /\ calls' = Append(calls,
                 SnapshotCall("restore", "POST", "passive", snapshot, idx,
                              outcome = "ok"))
          /\ IF outcome = "ok"
             THEN /\ pc' = "restore_poll"
                  /\ attempt' = 0
                  /\ UNCHANGED <<i, restore_result>>
             ELSE ReturnFromRestore(FALSE)
    /\ UNCHANGED <<runVars, expected_docs, health_polls, green_polls, pollLog>>

\* line 244: while attempt < max_attempts
CanPoll_le(a) == a <= max_attempts

CanPoll(a) == a < max_attempts

\* lines 270-273: the health request raised
AfterRaisedPoll_same(a) == a

AfterRaisedPoll(a) == a + 1

\* lines 266-269 and 258-269: the response is not ok, or not green, or green
\* with a doc count that does not verify
AfterUnfinishedPoll(a) == a + 1

HealthResponses ==
    {[kind |-> "raised", status |-> None], [kind |-> "not_ok", status |-> None]}
        \cup {[kind |-> "ok", status |-> st] : st \in Statuses}

\* what a poll observed: "error", a status that is not green, or green with
\* the passive doc count equal to the expected one or not
Observed(h, c) ==
    IF h.kind # "ok" THEN "error"
    ELSE IF h.status # "green" THEN h.status
    ELSE IF c.ok /\ c.count = expected_docs THEN "green_match"
    ELSE "green_mismatch"

\* lines 244-273: one iteration of the while loop
RestorePoll ==
    /\ pc = "restore_poll"
    /\ CanPoll(attempt)
    /\ \E h \in HealthResponses, c \in CountResponses :
          /\ health_polls' = health_polls + 1
          /\ pollLog' = Pushed(pollLog, Observed(h, c))
          /\ calls' = Logged(calls,
                 Call("health", "GET", "passive", idx,
                      Observed(h, c) = "green_match"))
          /\ IF h.kind = "raised"
             THEN /\ attempt' = AfterRaisedPoll(attempt)
                  /\ UNCHANGED <<pc, i, restore_result>>
             ELSE IF /\ h.kind = "ok"
                     /\ h.status = "green"
                     /\ verify_restore_success(get_index_doc_count(c),
                                               expected_docs)
             THEN ReturnFromRestore(TRUE)
             ELSE /\ attempt' = AfterUnfinishedPoll(attempt)
                  /\ UNCHANGED <<pc, i, restore_result>>
    /\ UNCHANGED <<runVars, expected_docs, green_polls>>

\* lines 275-276: the loop ended without a return
RestoreTimeout ==
    /\ pc = "restore_poll"
    /\ ~CanPoll(attempt)
    /\ ReturnFromRestore(FALSE)
    /\ UNCHANGED <<runVars, expected_docs, health_polls, green_polls, pollLog,
                   calls>>

(***************************************************************************)
(* open_index and wait_for_green, lines 282-314, called at lines 363-365   *)
(***************************************************************************)
OpenIndex ==
    /\ pc = "open_index"
    /\ \E ok \in BOOLEAN :
          /\ calls' = Append(calls, Call("open", "POST", "passive", idx, ok))
          /\ IF ok
             THEN /\ pc' = "wait_for_green"
                  /\ attempt' = 0
                  /\ i' = i
             ELSE NextIndex
    /\ health_polls' = 0         \* the history of restore_index ends here
    /\ pollLog' = <<>>
    /\ UNCHANGED <<runVars, expected_docs, green_polls, restore_result>>

\* lines 296-311: one iteration of the while loop
WaitForGreen ==
    /\ pc = "wait_for_green"
    /\ attempt < wait_max_attempts
    /\ \E h \in HealthResponses :
          /\ green_polls' = green_polls + 1
          /\ calls' = Logged(calls,
                 Call("wait_green", "GET", "passive", idx,
                      h.kind = "ok" /\ h.status = "green"))
          /\ IF h.kind = "ok" /\ h.status = "green"
             THEN NextIndex
             ELSE /\ attempt' = attempt + 1
                  /\ UNCHANGED <<pc, i>>
    /\ UNCHANGED <<runVars, expected_docs, health_polls, pollLog,
                   restore_result>>

\* lines 313-314 and 365: the loop ended without a return
WaitTimeout ==
    /\ pc = "wait_for_green"
    /\ ~(attempt < wait_max_attempts)
    /\ NextIndex
    /\ UNCHANGED <<runVars, expected_docs, health_polls, green_polls, pollLog,
                   restore_result, calls>>

(***************************************************************************)
(* Specifications                                                          *)
(***************************************************************************)
Next ==
    \/ VerifyRepository
    \/ GetLatestSnapshot
    \/ GetSnapshotIndices
    \/ GetLocalIndices
    \/ PickBatch
    \/ GetExpectedDocs
    \/ CloseIndex
    \/ RestoreVerify
    \/ RestoreRequest
    \/ RestorePoll
    \/ RestoreTimeout
    \/ OpenIndex
    \/ WaitForGreen
    \/ WaitTimeout

\* one run of main() against any cluster responses of the model
Spec == Init /\ [][Next]_vars

\* main() is sequential and every HTTP call returns or raises: a run that can
\* take a step takes it
FairSpec == Spec /\ WF_vars(Next)


(***************************************************************************)
(* pick_indices_to_restore on every pair of maps of a bounded family:      *)
(* main() at line 343, after prerequisites that all succeeded              *)
(***************************************************************************)
MaxIdx == 3                 \* entries of a snapshot-size map

PickNames  == UserNames \cup {dot_kibana_1}
SnapSizes  == {50, 200, 250, 300, 600}
LocalStats == {Stat(7, 250)}

Distinct(s) == \A k, l \in 1..Len(s) : k # l => s[k].name # s[l].name

PickSnapshotMaps ==
    UNION { { s \in [1..n -> {Entry(nm, sz) : nm \in PickNames, sz \in SnapSizes}]
                : Distinct(s) }
            : n \in 1..MaxIdx }

PickLocalMaps == UNION { [D -> LocalStats] : D \in SUBSET PickNames }

PrerequisiteCalls ==
    << Call("repo_exists", "GET", "passive", None, TRUE),
       Call("repo_status", "GET", "passive", None, TRUE),
       Call("list_snapshots", "GET", "active", None, TRUE),
       Call("snapshot_status", "GET", "active", None, TRUE),
       Call("cat_indices", "GET", "passive", None, TRUE) >>

InitPick ==
    /\ pc = "pick"
    /\ snapshot = "snap-2"
    /\ snap_indices \in PickSnapshotMaps
    /\ \E m \in PickLocalMaps : local_indices = [none |-> FALSE, dict |-> m]
    /\ batch = <<>>
    /\ picked = FALSE
    /\ i = 0
    /\ expected_docs = NoCount
    /\ attempt = 0
    /\ health_polls = 0
    /\ green_polls = 0
    /\ pollLog = <<>>
    /\ restore_result = None
    /\ calls = PrerequisiteCalls
    /\ contents = [listing |-> LatestListing, snap |-> snap_indices,
                   local |-> local_indices.dict]
    /\ run = 1
    /\ prev = NoRun
    /\ size = <<>>
    /\ size_bytes = Bytes(0, 0)

SpecPick == InitPick /\ [][PickBatch]_vars


(***************************************************************************)
(* Two runs in a row: main() is started again after a run has ended, with  *)
(* no change of the clusters in between other than what the first run's    *)
(* restores did.  A restored index has its snapshot size on the passive    *)
(* cluster; an index whose restore request was accepted and not seen to    *)
(* finish may or may not have been restored.  The second run is followed   *)
(* up to its selection of a batch.                                         *)
(***************************************************************************)
\* size_in_bytes of the index n in the snapshot
SizeInSnapshot(n) ==
    LET k == CHOOSE k \in 1..Len(contents.snap) : contents.snap[k].name = n
    IN  contents.snap[k].size

\* the batch indices for which restore_index returned True (line 362)
ReportedRestored ==
    { batch[m] : m \in { m \in 1..Len(batch) :
         \E k \in 1..Len(calls) :
            calls[k].op = "health" /\ calls[k].index = batch[m] /\ calls[k].ok } }

\* the batch indices whose restore request was accepted (line 235)
RestoreAccepted ==
    { batch[m] : m \in { m \in 1..Len(batch) :
         \E k \in 1..Len(calls) :
            calls[k].op = "restore" /\ calls[k].index = batch[m] /\ calls[k].ok } }

\* the passive index table once the indices of done are restored
AfterRestore(table, done, d) ==
    [n \in DOMAIN table \cup done |->
        IF n \in done THEN Stat(d, SizeInSnapshot(n)) ELSE table[n]]

\* the run has ended (line 369 or a return of main) and main() starts again
Rerun ==
    /\ run = 1
    /\ pc \in {"completed", "exited"}
    /\ \E late \in SUBSET (RestoreAccepted \ ReportedRestored), d \in DocCounts :
          contents' = [contents EXCEPT
                          !.local = AfterRestore(@, ReportedRestored \cup late, d)]
    /\ prev' = [batch |-> batch, restored |-> ReportedRestored, ended |-> pc]
    /\ run' = 2
    /\ pc' = "verify_repository"
    /\ snapshot' = None
    /\ snap_indices' = <<>>
    /\ local_indices' = [none |-> TRUE, dict |-> EmptyDict]
    /\ batch' = <<>>
    /\ picked' = FALSE
    /\ i' = 0
    /\ expected_docs' = NoCount
    /\ attempt' = 0
    /\ health_polls' = 0
    /\ green_polls' = 0
    /\ pollLog' = <<>>
    /\ restore_result' = None
    /\ calls' = <<>>
    /\ UNCHANGED <<size, size_bytes>>

\* lines 320-346 of the second run
SecondRunSelection ==
    /\ run = 2
    /\ \/ VerifyRepository
       \/ GetLatestSnapshot
       \/ GetSnapshotIndices
       \/ GetLocalIndices
       \/ PickBatch

NextTwice ==
    \/ run = 1 /\ Next
    \/ Rerun
    \/ SecondRunSelection

SpecTwice == Init /\ [][NextTwice]_vars


(***************************************************************************)
(* The conversion of a store.size string to bytes, lines 112-127 of        *)
(* get_local_indices, on every string of a bounded family.  The strings    *)
(* are built from digits, the letters of the suffixes and one letter that  *)
(* belongs to neither: on these float() and int() accept exactly the       *)
(* non-empty strings of digits.                                            *)
(***************************************************************************)
MaxSizeLen == 4             \* characters of a store.size string

Digits    == {"0", "1", "2"}
SizeChars == Digits \cup {"k", "m", "g", "t", "b", "K", "B", "x"}

SizeStrings == UNION { [1..n -> SizeChars] : n \in 0..MaxSizeLen }

IsDigits(s) == s # <<>> /\ \A k \in 1..Len(s) : s[k] \in Digits

\* the number that int() or float() reads from a string of digits
RECURSIVE DigitsValue(_)
DigitsValue(s) ==
    IF s = <<>> THEN 0
    ELSE 10 * DigitsValue(SubSeq(s, 1, Len(s) - 1)) + Digit(s[Len(s)])

\* str.endswith
EndsWith(s, suffix) ==
    /\ Len(suffix) <= Len(s)
    /\ SubSeq(s, Len(s) - Len(suffix) + 1, Len(s)) = suffix

\* size[:-2]
DropLastTwo(s) == IF Len(s) <= 2 THEN <<>> ELSE SubSeq(s, 1, Len(s) - 2)

\* lines 118-121: the power of 1024 that num is multiplied by
Multiplier(s) ==
    IF EndsWith(s, <<"k", "b">>) THEN 1
    ELSE IF EndsWith(s, <<"m", "b">>) THEN 2
    ELSE IF EndsWith(s, <<"g", "b">>) THEN 3
    ELSE IF EndsWith(s, <<"t", "b">>) THEN 4
    ELSE 0

\* lines 113-127: a ValueError of float() or int() leaves size_bytes at 0
parse_size(s) ==
    IF s = <<>> THEN Bytes(0, 0)                \* "if size and ..."
    ELSE IF EndsWith(s, <<"b">>)
         THEN IF IsDigits(DropLastTwo(s))
              THEN Bytes(DigitsValue(DropLastTwo(s)), Multiplier(s))
              ELSE Bytes(0, 0)
         ELSE IF IsDigits(s) THEN Bytes(DigitsValue(s), 0)
              ELSE Bytes(0, 0)

\* lines 109-127 for one row of the listing
ParseSize ==
    /\ pc = "parse_size"
    /\ size_bytes' = parse_size(size)
    /\ pc' = "parsed"
    /\ UNCHANGED <<snapshot, snap_indices, local_indices, batch, picked, i,
                   loopVars, calls, contents, run, prev, size>>

InitParse ==
    /\ pc = "parse_size"
    /\ size \in SizeStrings
    /\ size_bytes = Bytes(0, 0)
    /\ snapshot = "snap-2"
    /\ snap_indices = << Entry(logs, 200) >>
    /\ local_indices = [none |-> TRUE, dict |-> EmptyDict]
    /\ batch = <<>>
    /\ picked = FALSE
    /\ i = 0
    /\ expected_docs = NoCount
    /\ attempt = 0
    /\ health_polls = 0
    /\ green_polls = 0
    /\ pollLog = <<>>
    /\ restore_result = None
    /\ calls = << Call("repo_exists", "GET", "passive", None, TRUE),
                  Call("repo_status", "GET", "passive", None, TRUE),
                  Call("list_snapshots", "GET", "active", None, TRUE),
                  Call("snapshot_status", "GET", "active", None, TRUE) >>
    /\ contents = [listing |-> LatestListing, snap |-> snap_indices,
                   local |-> EmptyDict]
    /\ run = 1
    /\ prev = NoRun

SpecParse == InitParse /\ [][ParseSize]_vars


(***************************************************************************)
(* get_latest_snapshot on every listing of a bounded family: main() at     *)
(* line 325, after a repository verification that succeeded.  The cat API  *)
(* gives end_epoch as a string of digits.                                  *)
(***************************************************************************)
MaxRows == 3                \* rows of a snapshot listing

SnapshotIds == {"snap-1", "snap-2", "snap-3"}
Epochs      == { <<"9", "9">>, <<"1", "0", "0">>, <<"2", "0", "0">> }

Listings ==
    UNION { { l \in [1..n -> [id : SnapshotIds, end_epoch : Epochs]] :
                \A k, m \in 1..n : k # m => l[k].id # l[m].id }
            : n \in 1..MaxRows }

InitLatest ==
    /\ pc = "get_latest_snapshot"
    /\ snapshot = None
    /\ snap_indices = <<>>
    /\ local_indices = [none |-> TRUE, dict |-> EmptyDict]
    /\ batch = <<>>
    /\ picked = FALSE
    /\ i = 0
    /\ expected_docs = NoCount
    /\ attempt = 0
    /\ health_polls = 0
    /\ green_polls = 0
    /\ pollLog = <<>>
    /\ restore_result = None
    /\ calls = << Call("repo_exists", "GET", "passive", None, TRUE),
                  Call("repo_status", "GET", "passive", None, TRUE) >>
    /\ \E l \in Listings :
          contents = [listing |-> l, snap |-> << Entry(logs, 200) >>,
                      local |-> EmptyDict]
    /\ run = 1
    /\ prev = NoRun
    /\ size = <<>>
    /\ size_bytes = Bytes(0, 0)

SpecLatest == InitLatest /\ [][GetLatestSnapshot]_vars


(***************************************************************************)
(* Properties of the selection (checked under SpecPick)                    *)
(***************************************************************************)
Range(s) == {s[k] : k \in 1..Len(s)}

SnapNames == {snap_indices[k].name : k \in 1..Len(snap_indices)}

\* the snapshot size of a key of the snapshot map
SnapSize(n) ==
    LET k == CHOOSE k \in 1..Len(snap_indices) : snap_indices[k].name = n
    IN  snap_indices[k].size

RECURSIVE SumSizes(_)
SumSizes(names) ==
    IF names = <<>> THEN 0
    ELSE SnapSize(Head(names)) + SumSizes(Tail(names))

BatchSizes == [k \in 1..Len(batch) |-> SnapSize(batch[k])]

IsSystemName(n) ==
    \E p \in Range(SYSTEM_INDICES) :
        /\ Len(n) >= Len(p)
        /\ \A k \in 1..Len(p) : n[k] = p[k]

\* a snapshot index that is not a system index and is absent locally or
\* strictly larger in the snapshot than locally
IsCandidate(n) ==
    /\ n \in SnapNames
    /\ ~IsSystemName(n)
    /\ \/ n \notin DOMAIN local_indices.dict
       \/ SnapSize(n) > local_indices.dict[n].size

Excluded == {n \in SnapNames : IsCandidate(n) /\ n \notin Range(batch)}

\* C1: the snapshot sizes of the indices returned by pick_indices_to_restore
\* sum to at most MAX_RESTORE_BYTES, for every snapshot-size map and
\* local-index map.
C1_BatchWithinCeiling ==
    picked =>
        /\ batch \in Seq(SnapNames)
        /\ SumSizes(batch) <= MAX_RESTORE_BYTES

\* a batch of two indices that fills the ceiling exactly while a third
\* candidate is left out
C1_Witness ==
    /\ picked
    /\ Len(batch) = 2
    /\ SumSizes(batch) = MAX_RESTORE_BYTES
    /\ Excluded # {}

\* C3: every index of the batch is a key of the snapshot map and is absent
\* from the local-index map or strictly larger in the snapshot than locally;
\* an index whose local size is equal to or greater than its snapshot size
\* is never selected.
C3_OnlyAbsentOrLarger ==
    picked =>
        \A k \in 1..Len(batch) :
            /\ batch[k] \in SnapNames
            /\ \/ batch[k] \notin DOMAIN local_indices.dict
               \/ SnapSize(batch[k]) > local_indices.dict[batch[k]].size

\* the batch holds an index that is larger in the snapshot than locally,
\* while an index of equal sizes and one that is larger locally are left out
C3_Witness ==
    /\ picked
    /\ \E n \in Range(batch) :
          /\ n \in DOMAIN local_indices.dict
          /\ SnapSize(n) > local_indices.dict[n].size
    /\ \E n \in SnapNames \ Range(batch) :
          /\ n \in DOMAIN local_indices.dict
          /\ SnapSize(n) = local_indices.dict[n].size
    /\ \E n \in SnapNames \ Range(batch) :
          /\ n \in DOMAIN local_indices.dict
          /\ SnapSize(n) < local_indices.dict[n].size

\* three candidates of sizes 300, 200 and 250, in any order of the snapshot
\* map, none present locally, under the ceiling of 500
GreedyExample ==
    /\ Len(snap_indices) = 3
    /\ {snap_indices[k].size : k \in 1..3} = {300, 200, 250}
    /\ \A k \in 1..3 : ~IsSystemName(snap_indices[k].name)
    /\ DOMAIN local_indices.dict = {}
    /\ MAX_RESTORE_BYTES = 500

\* C4 as stated: on the sizes 300, 200 and 250 with ceiling 500 the batch is
\* the indices of size 300 and 200 (total 500) and 250 is excluded.
C4_AsStated ==
    (picked /\ GreedyExample) => BatchSizes = <<300, 200>>

\* C4, amended: on the sizes 300, 200 and 250 with ceiling 500 the batch is
\* the index of size 300 alone (total 300); the indices of size 250 and 200
\* are both excluded, because 250 comes second in the descending order and
\* 300 + 250 exceeds the ceiling.
C4_GreedyExample ==
    (picked /\ GreedyExample) =>
        /\ BatchSizes = <<300>>
        /\ {SnapSize(n) : n \in Excluded} = {250, 200}

\* the example input, given in the order 300, 200, 250, after the selection
C4_Witness ==
    /\ picked
    /\ GreedyExample
    /\ [k \in 1..3 |-> snap_indices[k].size] = <<300, 200, 250>>

\* C5: the batch is in descending snapshot-size order and is exactly the
\* longest prefix of the descending-sorted candidate list whose cumulative
\* size stays at or below the ceiling: nothing follows the first candidate
\* that would push the total over it, even a smaller one that would fit.
C5_LongestDescendingPrefix ==
    picked =>
        \* in descending order, without repetition
        /\ \A k, l \in 1..Len(batch) :
              k < l => /\ SnapSize(batch[k]) >= SnapSize(batch[l])
                       /\ batch[k] # batch[l]
        \* a prefix of the descending candidate list
        /\ \A k \in 1..Len(batch) : IsCandidate(batch[k])
        /\ \A n \in Excluded : \A k \in 1..Len(batch) :
              SnapSize(batch[k]) >= SnapSize(n)
        \* among equal sizes the snapshot map's order is kept
        /\ \A n \in Excluded : \A k \in 1..Len(batch) :
              SnapSize(batch[k]) = SnapSize(n) =>
                  \E a, b \in 1..Len(snap_indices) :
                      /\ a < b
                      /\ snap_indices[a].name = batch[k]
                      /\ snap_indices[b].name = n
        \* the longest one: the candidate that comes next does not fit
        /\ SumSizes(batch) <= MAX_RESTORE_BYTES
        /\ Excluded # {} =>
              \E n \in Excluded :
                  /\ \A m \in Excluded : SnapSize(n) >= SnapSize(m)
                  /\ SumSizes(batch) + SnapSize(n) > MAX_RESTORE_BYTES

\* a candidate that would still fit is left out, because a larger one before
\* it did not fit
C5_Witness ==
    /\ picked
    /\ batch # <<>>
    /\ \E n \in Excluded : SumSizes(batch) + SnapSize(n) <= MAX_RESTORE_BYTES


(***************************************************************************)
(* Properties of a run (checked under Spec, C6 under FairSpec)             *)
(***************************************************************************)
Issued(op, n) == \E k \in 1..Len(calls) : calls[k].op = op /\ calls[k].index = n

Failed(op) == \E k \in 1..Len(calls) : calls[k].op = op /\ ~calls[k].ok

RestoreActions == {"close", "restore", "open"}

NoRestoreAction ==
    \A k \in 1..Len(calls) : calls[k].op \notin RestoreActions

\* C2: an index whose name starts with a prefix of the system-index denylist
\* is never in the batch and never receives a close, restore or open call
\* (nor any other per-index call), whatever its snapshot and local sizes.
C2_NoSystemIndex ==
    /\ \A k \in 1..Len(batch) : ~IsSystemName(batch[k])
    /\ \A k \in 1..Len(calls) :
          calls[k].index # None => ~IsSystemName(calls[k].index)

\* the run completed on a snapshot that holds a system index larger than its
\* local copy, and restored a user index
C2_Witness ==
    /\ pc = "completed"
    /\ \E n \in SnapNames :
          /\ IsSystemName(n)
          /\ n \in DOMAIN local_indices.dict
          /\ SnapSize(n) > local_indices.dict[n].size
    /\ \E k \in 1..Len(calls) : calls[k].op = "restore" /\ calls[k].ok

\* C6: whatever the outcome of any phase of an index, the run goes on to
\* every later index of the batch and reaches its completion point (line
\* 369): once the loop is entered, the run eventually completes, having
\* fetched the doc count of (that is, started) every index of the batch.
C6_FailureIsolation ==
    [](picked /\ batch # <<>> =>
          <>(/\ pc = "completed"
             /\ \A k \in 1..Len(batch) : Issued("count", batch[k])))

\* the close of the first index failed and the second index was restored
\* and opened before the run completed
C6_Witness ==
    /\ pc = "completed"
    /\ Len(batch) >= 2
    /\ \E k \in 1..Len(calls) :
          calls[k].op = "close" /\ calls[k].index = batch[1] /\ ~calls[k].ok
    /\ \E k \in 1..Len(calls) :
          calls[k].op = "open" /\ calls[k].index = batch[2] /\ calls[k].ok

LastPoll == pollLog[Len(pollLog)]

\* C7: after an accepted restore request, restore_index reports success at
\* the first of the 30 health polls that is green with the passive doc count
\* equal to the expected one; any other poll leaves the attempt running and
\* consumes one of the 30 attempts.  The polls yellow, yellow, green with
\* mismatched docs, green with matching docs give success after 4 polls.
C7_SuccessAtFirstMatch ==
    \* while polling, no poll so far matched and each consumed one attempt
    /\ pc = "restore_poll" =>
          /\ restore_result = None
          /\ attempt = health_polls
          /\ attempt <= max_attempts
          /\ "green_match" \notin Range(pollLog)
    \* a matching poll ends the attempt at once, with success
    /\ (pollLog # <<>> /\ LastPoll = "green_match") =>
          /\ restore_result = "True"
          /\ pc = "open_index"
          /\ health_polls \in 1..max_attempts
    \* success is reported at a matching poll only, the first one
    /\ (restore_result = "True" /\ pc = "open_index") =>
          /\ pollLog # <<>>
          /\ LastPoll = "green_match"
          /\ \A k \in 1..(Len(pollLog) - 1) : pollLog[k] # "green_match"
    \* the example sequence
    /\ (health_polls = 3
            /\ pollLog = <<"yellow", "yellow", "green_mismatch">>) =>
          pc = "restore_poll" /\ attempt = 3
    /\ (health_polls = 4
            /\ pollLog = <<"yellow", "yellow", "green_mismatch",
                           "green_match">>) =>
          restore_result = "True"

\* the example sequence, answered with success at the fourth poll
C7_Witness ==
    /\ pollLog = <<"yellow", "yellow", "green_mismatch", "green_match">>
    /\ health_polls = 4
    /\ restore_result = "True"
    /\ pc = "open_index"

\* C8: when none of the first 30 health polls after an accepted restore
\* request is green with a matching doc count (failed polls included),
\* restore_index issues exactly 30 polls, returns failure as a value, and no
\* open call is made for that index.
C8_TimeoutAfter30Polls ==
    /\ health_polls <= max_attempts
    \* a failure after polling began is the timeout, after 30 polls; the run
    \* has moved on to the next index, and the index was not opened
    /\ (restore_result = "False" /\ health_polls > 0) =>
          /\ health_polls = max_attempts
          /\ "green_match" \notin Range(pollLog)
          /\ pc \in {"get_doc_count", "completed"}
          /\ ~Issued("open", batch[i - 1])
    \* an open call directly follows a poll that succeeded, of the same index
    /\ \A k \in 1..Len(calls) :
          calls[k].op = "open" =>
              /\ k > 1
              /\ calls[k - 1].op = "health"
              /\ calls[k - 1].index = calls[k].index
              /\ calls[k - 1].ok

\* a timeout whose latest polls include a failed HTTP call and a green poll
\* with mismatching docs
C8_Witness ==
    /\ restore_result = "False"
    /\ health_polls = max_attempts
    /\ "error" \in Range(pollLog)
    /\ "green_mismatch" \in Range(pollLog)
    /\ pc = "completed"

\* a run-level prerequisite failed: the repository did not verify, or no
\* latest snapshot was found, or the index-size map is empty or unfetched
PrerequisiteFailed ==
    \/ Failed("repo_exists")
    \/ Failed("repo_status")
    \/ (Issued("list_snapshots", None) /\ snapshot = None)
    \/ (Issued("snapshot_status", None) /\ snap_indices = <<>>)

\* C9: if the repository verification on the passive cluster fails, or no
\* latest snapshot is found, or the snapshot's index-size map is empty or
\* cannot be fetched, the run ends without computing a batch and without
\* any close, restore or open call.
C9_PrerequisiteAbort ==
    PrerequisiteFailed =>
        /\ pc = "exited"
        /\ ~picked
        /\ batch = <<>>
        /\ NoRestoreAction
        /\ \A k \in 1..Len(calls) : calls[k].index = None

\* the repository exists but its status request failed, and the run ended
C9_Witness ==
    /\ pc = "exited"
    /\ Len(calls) = 2
    /\ calls[1].op = "repo_exists" /\ calls[1].ok
    /\ calls[2].op = "repo_status" /\ ~calls[2].ok

\* C10 as stated: if fetching the passive cluster's local index stats fails,
\* the run is aborted: no batch is computed and no close, restore or open
\* call is issued.
C10_LocalStatsAbort ==
    Failed("cat_indices") =>
        /\ ~picked
        /\ pc = "exited"
        /\ NoRestoreAction


(***************************************************************************)
(* The calls that main makes for one index of the batch                    *)
(***************************************************************************)
PerIndexOps ==
    {"count", "close", "verify_snapshot", "restore", "health", "open",
     "wait_green"}

PerIndex(k) == calls[k].op \in PerIndexOps

\* the call at position k is made for the index n
For(k, n) == PerIndex(k) /\ calls[k].index = n

SameIndex(k, l) == PerIndex(k) /\ For(l, calls[k].index)

\* the first call made for its index
FirstOfIndex(k) == PerIndex(k) /\ (k = 1 \/ ~SameIndex(k, k - 1))

PositionOf(n) == CHOOSE m \in 1..Len(batch) : batch[m] = n

\* the loop has left the index n
Left(n) ==
    /\ n \in Range(batch)
    /\ \/ PositionOf(n) < i
       \/ pc = "completed"

\* the calls of restore_index
RestorePhase == {"verify_snapshot", "restore", "health"}

\* restore_index was called for n and returned False
RestoreFailed(n) ==
    /\ Left(n)
    /\ \E k \in 1..Len(calls) :
          /\ For(k, n)
          /\ calls[k].op \in RestorePhase
          /\ ~calls[k].ok

\* what the run's own calls have done to n: closed, and not opened since
ClosedByRun(n) ==
    \E k \in 1..Len(calls) :
       /\ calls[k].op = "close" /\ For(k, n) /\ calls[k].ok
       /\ \A l \in (k + 1)..Len(calls) :
             ~(calls[l].op = "open" /\ For(l, n) /\ calls[l].ok)

\* C12: for each batch index the calls on the passive cluster come in the
\* order close (when made), snapshot verification, restore request, health
\* polls, open, wait-green polls, and each is made only if the one before it
\* succeeded: the restore request after a snapshot verified visible, the open
\* call after restore_index reported success, the wait-green polls after an
\* open call that succeeded
C12_FixedOrder ==
    \A k \in 1..Len(calls) :
       (PerIndex(k) /\ calls[k].cluster = "passive") =>
          /\ k > 1
          /\ SameIndex(k, k - 1)
          /\ calls[k - 1].ok
          /\ CASE calls[k].op = "close" -> calls[k - 1].op = "count"
               [] calls[k].op = "verify_snapshot" ->
                     calls[k - 1].op \in {"count", "close"}
               [] calls[k].op = "restore" -> calls[k - 1].op = "verify_snapshot"
               [] calls[k].op = "health" -> calls[k - 1].op = "restore"
               [] calls[k].op = "open" -> calls[k - 1].op = "health"
               [] calls[k].op = "wait_green" -> calls[k - 1].op = "open"
               [] OTHER -> FALSE

\* an index went through all six steps
C12_Witness ==
    \E k \in 6..Len(calls) :
       /\ calls[k].op = "wait_green"
       /\ calls[k - 5].op = "close"
       /\ SameIndex(k, k - 5)

\* C13: a close call is issued for a batch index exactly when the index is
\* in the local-index map gathered at the start of the run; when the close
\* fails, no snapshot verification, restore request, health poll or open call
\* is made for that index
C13_CloseIffLocal ==
    \A k \in 1..Len(calls) :
       /\ calls[k].op = "close" => HasLocal(local_indices.dict, calls[k].index)
       /\ calls[k].op = "verify_snapshot" =>
             (HasLocal(local_indices.dict, calls[k].index)
                 <=> calls[k - 1].op = "close")
       /\ (calls[k].op = "count" /\ calls[k].ok /\ k < Len(calls)
              /\ HasLocal(local_indices.dict, calls[k].index)) =>
             (calls[k + 1].op = "close" /\ SameIndex(k, k + 1))
       /\ (calls[k].op = "close" /\ ~calls[k].ok) =>
             \A l \in 1..Len(calls) :
                SameIndex(k, l) => calls[l].op \in {"count", "close"}

\* a close failed for one index, another index absent locally was restored
\* without a close, and the run completed
C13_Witness ==
    /\ pc = "completed"
    /\ \E k \in 1..Len(calls) : calls[k].op = "close" /\ ~calls[k].ok
    /\ \E k \in 1..Len(calls) :
          /\ calls[k].op = "restore"
          /\ ~HasLocal(local_indices.dict, calls[k].index)

\* C14: the expected doc count of an index is read from the active cluster
\* before any close or restore for that index; if the read fails the index
\* receives no close, restore or open call (no other call at all) and the
\* run goes on to the next index
C14_CountFirst ==
    \A k \in 1..Len(calls) :
       /\ FirstOfIndex(k) =>
             (calls[k].op = "count" /\ calls[k].cluster = "active"
                 /\ calls[k].method = "GET")
       /\ (calls[k].op = "count" /\ ~calls[k].ok) =>
             /\ \A l \in 1..Len(calls) : l # k => ~SameIndex(k, l)
             /\ Left(calls[k].index)
             /\ pc # "exited"
             /\ (PositionOf(calls[k].index) < Len(batch) /\ k = Len(calls))
                   => (pc = "get_doc_count"
                          /\ i = PositionOf(calls[k].index) + 1)

\* the read failed for the first index of the batch and the second one was
\* restored
C14_Witness ==
    /\ Len(batch) = 2
    /\ \E k \in 1..Len(calls) :
          calls[k].op = "count" /\ calls[k].index = batch[1] /\ ~calls[k].ok
    /\ \E k \in 1..Len(calls) :
          calls[k].op = "restore" /\ calls[k].index = batch[2] /\ calls[k].ok

Terminated == pc \in {"completed", "exited"}

CountCalls == {k \in 1..Len(calls) : calls[k].op = "count"}

\* C17: every run terminates whatever the cluster answers: each batch index
\* gets at most 30 health polls in the restore phase and at most 30 in the
\* wait-green phase, every poll that does not end its loop consumes one
\* attempt (also when the HTTP call raises), and at most as many indices are
\* processed as the batch holds
C17_Terminates ==
    /\ [](/\ health_polls <= max_attempts
          /\ green_polls <= wait_max_attempts
          /\ pc = "restore_poll" => attempt = health_polls
          /\ pc = "wait_for_green" => attempt = green_polls
          /\ i <= Len(batch) + 1
          /\ Cardinality(CountCalls) <= Len(batch))
    /\ <>Terminated

\* a run that used all the polls of both phases for an index has completed
C17_Witness ==
    /\ pc = "completed"
    /\ green_polls = wait_max_attempts
    /\ Len(batch) = 2
    /\ Cardinality(CountCalls) = 2

\* C18: an index that the run closed and whose restore phase then failed
\* receives no open call for the rest of the run: the calls of the run leave
\* it closed, also when the run completes
C18_ClosedStaysClosed ==
    \A n \in Range(batch) :
       (Issued("close", n) /\ RestoreFailed(n)) =>
          /\ ~Issued("open", n)
          /\ ClosedByRun(n)

\* a completed run that closed an index and whose restore request for it was
\* rejected
C18_Witness ==
    /\ pc = "completed"
    /\ \E n \in Range(batch) :
          /\ ClosedByRun(n)
          /\ \E k \in 1..Len(calls) :
                calls[k].op = "restore" /\ calls[k].index = n /\ ~calls[k].ok

\* C19: no index is processed twice in a run: each batch index receives at
\* most one close call, one restore request and one open call, so a failed
\* restore is not requested again and a failed open or wait-green phase is
\* followed by no other close or restore of that index
C19_AtMostOnce ==
    /\ \A k, l \in 1..Len(batch) : k # l => batch[k] # batch[l]
    /\ \A k \in 1..Len(calls) :
          calls[k].op \in RestoreActions \cup {"count", "verify_snapshot"} =>
             \A l \in (k + 1)..Len(calls) :
                calls[l].op = calls[k].op => ~SameIndex(k, l)

\* a completed run in which one index had its restore rejected and another
\* had its open call fail
C19_Witness ==
    /\ pc = "completed"
    /\ \E k \in 1..Len(calls) : calls[k].op = "restore" /\ ~calls[k].ok
    /\ \E k \in 1..Len(calls) : calls[k].op = "open" /\ ~calls[k].ok

\* C20: the active cluster is only ever read (snapshot listing, snapshot
\* status, per-index doc count, all GET); every call that changes state
\* (close, restore, open, all POST) goes to the passive cluster
C20_ActiveOnlyRead ==
    \A k \in 1..Len(calls) :
       /\ calls[k].cluster \in {"active", "passive"}
       /\ calls[k].cluster = "active" =>
             /\ calls[k].method = "GET"
             /\ calls[k].op \in {"list_snapshots", "snapshot_status", "count"}
       /\ (calls[k].method # "GET" \/ calls[k].op \in RestoreActions) =>
             calls[k].cluster = "passive"

\* a completed run that read the active cluster and closed, restored and
\* opened an index
C20_Witness ==
    /\ pc = "completed"
    /\ \E n \in Range(batch) :
          Issued("close", n) /\ Issued("restore", n) /\ Issued("open", n)
    /\ \E k \in 1..Len(calls) : calls[k].cluster = "active"


(***************************************************************************)
(* Properties of two runs in a row (checked under SpecTwice)               *)
(***************************************************************************)
\* the second run has gathered a local-index map in which no non-system
\* snapshot index is absent or smaller than in the snapshot
NothingToRestore == \A n \in SnapNames : ~IsCandidate(n)

Lower(c) == CASE c = "K" -> "k" [] c = "B" -> "b" [] OTHER -> c

LowerStr(s) == [k \in 1..Len(s) |-> Lower(s[k])]

Suffixes == << <<"b">>, <<"k", "b">>, <<"m", "b">>, <<"g", "b">>, <<"t", "b">> >>

\* s is a non-negative integer followed by the suffix of 1024^n, in any
\* letter case
HasSuffix(s, n) ==
    LET suffix == Suffixes[n + 1]
    IN  /\ Len(s) > Len(suffix)
        /\ EndsWith(LowerStr(s), suffix)
        /\ IsDigits(SubSeq(s, 1, Len(s) - Len(suffix)))

\* the byte count that the grammar gives to s
Grammar(s) ==
    IF IsDigits(s) THEN Bytes(DigitsValue(s), 0)
    ELSE IF \E n \in 0..4 : HasSuffix(s, n)
         THEN LET n == CHOOSE n \in 0..4 : HasSuffix(s, n)
              IN  Bytes(DigitsValue(SubSeq(s, 1, Len(s) - Len(Suffixes[n + 1]))), n)
         ELSE Bytes(0, 0)

\* C15: a size string made of a non-negative integer N followed by b, kb,
\* mb, gb or tb (in any letter case) is converted to N * 1024^n with
\* n = 0, 1, 2, 3, 4; a bare integer N to N; an empty or malformed string to
\* 0, without an exception
C15_SizeParsing == pc = "parsed" => size_bytes = Grammar(size)


(***************************************************************************)
(* Properties of the choice of the snapshot (checked under SpecLatest)     *)
(***************************************************************************)
Listed == \E k \in 1..Len(calls) : calls[k].op = "list_snapshots" /\ calls[k].ok

\* C16: when the snapshot listing is not empty, get_latest_snapshot returns
\* the id of a snapshot whose end_epoch, taken as a number, is the maximum
\* over the listed snapshots, and every restore request of the run names
\* that snapshot
C16_LatestByNumber ==
    /\ (Listed /\ contents.listing # <<>>) =>
          \E r \in Range(contents.listing) :
             /\ r.id = snapshot
             /\ \A q \in Range(contents.listing) :
                   DigitsValue(q.end_epoch) <= DigitsValue(r.end_epoch)
    /\ \A k \in 1..Len(calls) :
          calls[k].op = "restore" => calls[k].snapshot = snapshot

=============================================================================
